---- MODULE Spec2Model ----
(***************************************************************************)
(* Currency Exchange Rates App, script v1.0.4 (src/unnamed/part_000, lines *)
(* 1-568): the fetch lifecycle of fetchExchangeRates, the per-base         *)
(* snapshot store AppState.previousRates, the auto-refresh interval, the   *)
(* connectivity handler and the fallback loader, as a state machine.      *)
(*                                                                         *)
(* The page runs on one thread: a handler runs to completion, and an      *)
(* async function is suspended only at an await.  Every action below is   *)
(* one such run: an event handler up to its first await, or the           *)
(* continuation of fetchExchangeRates after an await, through its catch   *)
(* and finally blocks.                                                     *)
(*                                                                         *)
(* Numbers: rates are JS doubles; here a rate is an integer count of      *)
(* 1/10000 units and a percentage change is the exact fraction num/den.   *)
(***************************************************************************)
EXTENDS Integers, FiniteSets, Sequences, TLC

\* Bound: the syncs started plus the calls of loadFallbackData in a run.
MaxOps == 3

NULL == "null"

\* ------------------------------------------------------------------ CONFIG

TARGET_CURRENCIES == {"USD", "EUR", "GBP", "JPY", "CHF", "CAD", "AUD", "CNY"}

\* Values of the base-currency <select> that the model lets the user pick.
Bases == {"EUR", "USD"}

\* HTTP statuses the remote endpoint answers with.
Statuses == {200, 404, 500}

\* ------------------------------------------------------------- JSON values

Num(n) == [type |-> "number", val |-> n]
Str == [type |-> "string", val |-> 0]

EmptyObj == [c \in {} |-> Num(0)]

\* Rate tables the endpoint may deliver.  T1 and T2 are the spec's scenario
\* ({USD:1.08, GBP:0.85} and {USD:1.10, GBP:0.85}) with one currency outside
\* TARGET_CURRENCIES; TBad carries a rate that is a JSON string.
T1 == [c \in {"USD", "GBP", "NZD"} |->
         CASE c = "USD" -> Num(10800) [] c = "GBP" -> Num(8500) [] c = "NZD" -> Num(17900)]
T2 == [c \in {"USD", "GBP", "NZD"} |->
         CASE c = "USD" -> Num(11000) [] c = "GBP" -> Num(8500) [] c = "NZD" -> Num(17900)]
TBad == [c \in {"USD", "GBP"} |->
         CASE c = "USD" -> Str [] c = "GBP" -> Num(8500)]
\* The elements of a JSON array, by index.
ArrayElems == [c \in {"0"} |-> Num(10800)]

\* Further tables handed to calculateRealTimeChanges when it is exercised on
\* its own.  Against U0 the table U1 moves CHF by exactly 0.001 %
\* (50000 -> 50000.5), CAD by 0.0005 % and AUD by 0.002 %; U2 moves CHF by
\* exactly -0.001 % and AUD by -0.002 %.  U0 has a JPY rate of 0 and no CNY;
\* all three carry the base EUR and the code NZD, which is not a target.
U0 == [c \in {"CHF", "CAD", "AUD", "EUR", "JPY", "NZD"} |->
         CASE c = "CHF" -> Num(500000000) [] c = "CAD" -> Num(500000000)
           [] c = "AUD" -> Num(500000000) [] c = "EUR" -> Num(10000)
           [] c = "JPY" -> Num(0) [] c = "NZD" -> Num(17900)]
U1 == [c \in {"CHF", "CAD", "AUD", "EUR", "JPY", "CNY", "NZD"} |->
         CASE c = "CHF" -> Num(500005000) [] c = "CAD" -> Num(500002500)
           [] c = "AUD" -> Num(500010000) [] c = "EUR" -> Num(10000)
           [] c = "JPY" -> Num(1612500) [] c = "CNY" -> Num(78564)
           [] c = "NZD" -> Num(18000)]
U2 == [c \in {"CHF", "CAD", "AUD", "EUR", "JPY", "CNY", "NZD"} |->
         CASE c = "CHF" -> Num(499995000) [] c = "CAD" -> Num(500000000)
           [] c = "AUD" -> Num(499990000) [] c = "EUR" -> Num(10000)
           [] c = "JPY" -> Num(1612500) [] c = "CNY" -> Num(78564)
           [] c = "NZD" -> Num(18000)]
CalcTables == {T1, T2, TBad, U0, U1, U2}

\* A parsed response body: what data.rates is.
Payloads ==
  { [kind |-> "object", rates |-> T1],
    [kind |-> "object", rates |-> T2],
    [kind |-> "object", rates |-> TBad],
    [kind |-> "array", rates |-> ArrayElems],
    [kind |-> "undefined", rates |-> EmptyObj],
    [kind |-> "null", rates |-> EmptyObj],
    [kind |-> "number", rates |-> EmptyObj],
    [kind |-> "string", rates |-> EmptyObj] }

\* JS: !x is false for objects, arrays, non-zero numbers, non-empty strings.
Truthy(p) == p.kind \in {"object", "array", "number", "string"}
\* JS: typeof x ("object" for null and for arrays).
TypeOf(p) ==
  CASE p.kind \in {"object", "array", "null"} -> "object"
    [] p.kind = "undefined" -> "undefined"
    [] p.kind = "number" -> "number"
    [] p.kind = "string" -> "string"

\* if (!data.rates || typeof data.rates !== 'object') throw INVALID_RESPONSE
InvalidRates(p) == ~Truthy(p) \/ TypeOf(p) # "object"

\* sampleData.rates of loadFallbackData: Math.random() makes the values vary
\* from call to call; two draws.
Sample(uUSD, uGBP) ==
  [c \in TARGET_CURRENCIES |->
     CASE c = "USD" -> Num(10854 + uUSD)
       [] c = "EUR" -> Num(10000)
       [] c = "GBP" -> Num(8574 + uGBP)
       [] c = "JPY" -> Num(1612500)
       [] c = "CHF" -> Num(9456)
       [] c = "CAD" -> Num(14678)
       [] c = "AUD" -> Num(16523)
       [] c = "CNY" -> Num(78564)]
Samples == {Sample(-54, 26), Sample(46, 26)}

\* ---------------------------------------------------------------- sw.js

\* Bound: the fetch events dispatched to the worker in a run.
MaxRequests == 3

CACHE_NAME == "currency-app-v1.0.0"
API_CACHE_NAME == "currency-api-cache-v1"
\* The name of a cache an earlier version of the worker has left.
StaleCacheName == "currency-app-v0.9.0"

ApiEUR == "https://api.frankfurter.app/latest?from=EUR"
ApiUSD == "https://api.frankfurter.app/latest?from=USD"

STATIC_ASSETS == {"/", "/index.html", "/style.css", "/script.js", ApiEUR}

\* The URLs of the requests the page makes: a precached page, an asset that
\* is not precached, and the rate endpoint for two bases.
Requests == {"/index.html", "/favicon.ico", ApiEUR, ApiUSD}

\* request.url.includes('frankfurter.app'), for the URLs above.
IsApiRequest(url) == url \in {ApiEUR, ApiUSD}

\* A stored or delivered response is told apart by when the network produced
\* it: 0 before this worker was installed, 1 during its install, e + 1 for
\* the live request of fetch event e.
NoEntries == [u \in {} |-> 0]

\* CacheStorage as the worker may find it: empty, or with the caches of an
\* earlier version (whose API cache has the same name), created in either
\* order.
Fresh == [names |-> << >>, entries |-> [n \in {} |-> NoEntries]]
LeftStaleFirst ==
  [names |-> <<StaleCacheName, API_CACHE_NAME>>,
   entries |-> [n \in {StaleCacheName, API_CACHE_NAME} |->
                  IF n = StaleCacheName
                  THEN [u \in {"/index.html", "/favicon.ico"} |-> 0]
                  ELSE [u \in {ApiEUR} |-> 0]]]
LeftApiFirst ==
  [names |-> <<API_CACHE_NAME, StaleCacheName>>,
   entries |-> [n \in {StaleCacheName, API_CACHE_NAME} |->
                  IF n = StaleCacheName
                  THEN [u \in {"/index.html"} |-> 0]
                  ELSE [u \in {ApiUSD} |-> 0]]]
InitialStorages == {Fresh, LeftStaleFirst, LeftApiFirst}

VARIABLES
  \* AppState
  previousRates, currentRates, currentBaseCurrency, isOnline,
  lastSuccessfulUpdate,  \* 0 is null; a Date is 1 or 2, each new Date() differing
                         \* from the one stored before it
  autoRefreshInterval,   \* 0 is null; a setInterval handle is a positive integer
  isFetching,
  \* host environment
  navigatorOnLine,      \* navigator.onLine
  intervalTimers,       \* live setInterval timers
  timeoutTimers,        \* pending setTimeout(() => controller.abort()) timers
  sessions,             \* suspended invocations of fetchExchangeRates
  initialLoadPending,   \* initApp's setTimeout(fetchExchangeRates, 500)
  \* DOM
  loadingVisible, errorVisible, errorMessage, resultsVisible, resultsTitle,
  displayedChanges, fallbackVisible, formDisabled, autoUpdateText,
  \* history: how the latest call of fetchExchangeRates returned, how the
  \* latest sync to complete ended, the syncs started so far (the n-th sync
  \* is closure n), the calls of loadFallbackData so far
  lastCall, outcome, started, fallbackLoads,
  \* service worker (src/sw.js) and the origin's CacheStorage
  swState,        \* lifecycle of this worker
  cacheNames,     \* the names of the caches, in the order they were created
  cacheEntries,   \* cache name -> (request URL -> stored response)
  toDelete,       \* activate: the caches.delete calls not yet settled
  fetchEvents,    \* the fetch events dispatched to the worker, by number
  pendingPuts     \* API branch: caches.open(...).then(put) not yet run

appVars == <<previousRates, currentRates, currentBaseCurrency, isOnline,
             lastSuccessfulUpdate, autoRefreshInterval, isFetching>>
hostVars == <<navigatorOnLine, intervalTimers, timeoutTimers, sessions,
              initialLoadPending>>
domVars == <<loadingVisible, errorVisible, errorMessage, resultsVisible,
             resultsTitle, displayedChanges, fallbackVisible, formDisabled,
             autoUpdateText>>
pageVars == <<appVars, hostVars, domVars, lastCall, outcome, started, fallbackLoads>>
swVars == <<swState, cacheNames, cacheEntries, toDelete, fetchEvents, pendingPuts>>
vars == <<pageVars, swVars>>

NoMessage == [text |-> "", status |-> 0]

\* The page when the script has been evaluated and initApp has run.
PageInit ==
  /\ previousRates = EmptyObj
  /\ currentRates = EmptyObj
  /\ currentBaseCurrency = "EUR"
  /\ navigatorOnLine \in BOOLEAN
  /\ isOnline = navigatorOnLine
  /\ lastSuccessfulUpdate = 0
  /\ autoRefreshInterval = 0
  /\ isFetching = FALSE
  /\ intervalTimers = {}
  /\ timeoutTimers = {}
  /\ sessions = [i \in {} |-> 0]
  /\ initialLoadPending = TRUE
  /\ loadingVisible = FALSE
  /\ errorVisible = FALSE
  /\ errorMessage = NoMessage
  /\ resultsVisible = FALSE
  /\ resultsTitle = NULL
  /\ displayedChanges = EmptyObj
  /\ fallbackVisible = FALSE
  /\ formDisabled = FALSE
  /\ autoUpdateText = isOnline
  /\ lastCall = "none"
  /\ outcome = "none"
  /\ started = 0
  /\ fallbackLoads = 0

\* The worker script has been parsed; the origin's CacheStorage is `storage`.
SwStart(storage) ==
  /\ swState = "parsed"
  /\ cacheNames = storage.names
  /\ cacheEntries = storage.entries
  /\ toDelete = {}
  /\ fetchEvents = [e \in {} |-> 0]
  /\ pendingPuts = {}

Init == PageInit /\ SwStart(Fresh)

\* ------------------------------------------------------- ChangeCalculator

Abs(x) == IF x < 0 THEN -x ELSE x

\* The percentage change 0.
Stable == [num |-> 0, den |-> 1]

\* JS truthiness of table[c]: a missing key is undefined, the number 0 is
\* falsy, a non-empty string is truthy.
HasRate(table, c) ==
  c \in DOMAIN table /\ (table[c].type = "number" => table[c].val # 0)

\* The change taken relative to the current rate instead of the previous one.
PercentChange_OfCurrent(currentRate, previousRate) ==
  IF currentRate.type = "number" /\ previousRate.type = "number"
  THEN LET num == (currentRate.val - previousRate.val) * 100
           den == currentRate.val
       IN IF Abs(num) * 1000 > Abs(den) THEN [num |-> num, den |-> den] ELSE [num |-> 0, den |-> 1]
  ELSE [num |-> 0, den |-> 1]

\* ((currentRate - previousRate) / previousRate) * 100, kept when
\* Math.abs(change) > 0.001 and replaced by 0 otherwise.  A rate that is not
\* a number makes the change NaN, and Math.abs(NaN) > 0.001 is false.
PercentChange(currentRate, previousRate) ==
  IF currentRate.type = "number" /\ previousRate.type = "number"
  THEN LET num == (currentRate.val - previousRate.val) * 100
           den == previousRate.val
       IN IF Abs(num) * 1000 > Abs(den) THEN [num |-> num, den |-> den] ELSE Stable
  ELSE Stable

\* calculateRealTimeChanges reading the snapshot of another base whenever the
\* store has one.
ChangesAgainst_OtherBase(store, rates, baseCurrency) ==
  LET others == DOMAIN store \ {baseCurrency}
  IN IF others = {} /\ baseCurrency \notin DOMAIN store
     THEN [c \in {} |-> Stable]
     ELSE LET previous == IF others # {} THEN store[CHOOSE o \in others : TRUE]
                          ELSE store[baseCurrency]
              compared == {c \in TARGET_CURRENCIES :
                             c # baseCurrency /\ HasRate(rates, c) /\ HasRate(previous, c)}
          IN [c \in compared |-> PercentChange(rates[c], previous[c])]

\* calculateRealTimeChanges looping over the codes of the delivered table
\* instead of CONFIG.TARGET_CURRENCIES.
ChangesAgainst_AllCodes(store, rates, baseCurrency) ==
  IF baseCurrency \in DOMAIN store
  THEN LET previous == store[baseCurrency]
           compared == {c \in DOMAIN rates :
                          c # baseCurrency /\ HasRate(rates, c) /\ HasRate(previous, c)}
       IN [c \in compared |-> PercentChange(rates[c], previous[c])]
  ELSE [c \in {} |-> Stable]

\* calculateRealTimeChanges without its `if (previous)` test: a base with no
\* entry is compared with the delivered table itself.
ChangesAgainst_NoNullCheck(store, rates, baseCurrency) ==
  LET previous == IF baseCurrency \in DOMAIN store THEN store[baseCurrency] ELSE rates
      compared == {c \in TARGET_CURRENCIES :
                     c # baseCurrency /\ HasRate(rates, c) /\ HasRate(previous, c)}
  IN [c \in compared |-> PercentChange(rates[c], previous[c])]

\* The changes object calculateRealTimeChanges builds when the store is
\* `store`: empty when the store has no entry for the base, and otherwise an
\* entry for every target currency other than the base whose rate is truthy
\* in both tables.
ChangesAgainst(store, rates, baseCurrency) ==
  IF baseCurrency \in DOMAIN store
  THEN LET previous == store[baseCurrency]
           compared == {c \in TARGET_CURRENCIES :
                          c # baseCurrency /\ HasRate(rates, c) /\ HasRate(previous, c)}
       IN [c \in compared |-> PercentChange(rates[c], previous[c])]
  ELSE EmptyObj

\* The value calculateRealTimeChanges returns: it reads AppState.previousRates.
calculateRealTimeChanges(rates, baseCurrency) ==
  ChangesAgainst(previousRates, rates, baseCurrency)

\* AppState.previousRates after calculateRealTimeChanges' last statement:
\* AppState.previousRates[baseCurrency] = { ...currentRates }
StoreAfterCalculate(rates, baseCurrency) ==
  [b \in DOMAIN previousRates \cup {baseCurrency} |->
     IF b = baseCurrency THEN rates ELSE previousRates[b]]

\* displayResults calls rate.toFixed(4) for every listed currency: a
\* TypeError when the rate of a target currency other than the base is not
\* a number.
DisplayThrows(rates, baseCurrency) ==
  \E c \in DOMAIN rates \cap TARGET_CURRENCIES :
     c # baseCurrency /\ rates[c].type # "number"

\* --------------------------------------------------------- error handling

AbortError == [name |-> "AbortError", message |-> "The user aborted a request.", status |-> 0]
ApiError(status) == [name |-> "Error", message |-> "API_ERROR", status |-> status]
InvalidResponse == [name |-> "Error", message |-> "INVALID_RESPONSE", status |-> 0]
FetchTypeError == [name |-> "TypeError", message |-> "Failed to fetch", status |-> 0]
JsonSyntaxError == [name |-> "SyntaxError", message |-> "Unexpected token", status |-> 0]
ToFixedTypeError == [name |-> "TypeError", message |-> "rate.toFixed is not a function", status |-> 0]

\* handleFetchError dropping the status code of an API_ERROR.
ErrorText_NoStatus(error, online) ==
  IF error.name = "AbortError" THEN [text |-> "Request timeout", status |-> 0]
  ELSE IF error.message = "API_ERROR" THEN [text |-> "Service unavailable", status |-> 0]
  ELSE IF error.message = "INVALID_RESPONSE"
       THEN [text |-> "Invalid response from server", status |-> 0]
  ELSE IF ~online THEN [text |-> "No internet connection", status |-> 0]
  ELSE [text |-> "An unexpected error occurred", status |-> 0]

\* ErrorText with the connectivity test moved to the front.
ErrorText_OfflineFirst(error, online) ==
  IF ~online
  THEN [text |-> "No internet connection", status |-> 0]
  ELSE IF error.name = "AbortError"
  THEN [text |-> "Request timeout", status |-> 0]
  ELSE IF error.message = "API_ERROR"
  THEN [text |-> "Service unavailable", status |-> error.status]
  ELSE IF error.message = "INVALID_RESPONSE"
  THEN [text |-> "Invalid response from server", status |-> 0]
  ELSE [text |-> "An unexpected error occurred", status |-> 0]

\* The message handleFetchError chooses; online is AppState.isOnline at the
\* time of the call.
ErrorText(error, online) ==
  IF error.name = "AbortError"
  THEN [text |-> "Request timeout", status |-> 0]
  ELSE IF error.message = "API_ERROR"
  THEN [text |-> "Service unavailable", status |-> error.status]
  ELSE IF error.message = "INVALID_RESPONSE"
  THEN [text |-> "Invalid response from server", status |-> 0]
  ELSE IF ~online
  THEN [text |-> "No internet connection", status |-> 0]
  ELSE [text |-> "An unexpected error occurred", status |-> 0]

\* handleFetchError offering the fallback data whatever the store holds.
handleFetchError_AlwaysOffer(error, online, store) ==
  /\ errorVisible' = TRUE
  /\ errorMessage' = ErrorText(error, online)
  /\ fallbackVisible' = TRUE

\* handleFetchError; store is AppState.previousRates at the time of the call.
handleFetchError(error, online, store) ==
  /\ errorVisible' = TRUE
  /\ errorMessage' = ErrorText(error, online)
  /\ fallbackVisible' = IF DOMAIN store # {} THEN TRUE ELSE fallbackVisible

\* FinallyBlock without its first statement.
FinallyBlock_KeepBusy(online) ==
  /\ isFetching' = isFetching
  /\ loadingVisible' = FALSE
  /\ formDisabled' = FALSE
  /\ autoUpdateText' = online

\* FinallyBlock without hideLoading().
FinallyBlock_KeepLoading(online) ==
  /\ isFetching' = FALSE
  /\ loadingVisible' = loadingVisible
  /\ formDisabled' = FALSE
  /\ autoUpdateText' = online

\* finally { isFetching = false; hideLoading(); disableForm(false);
\*           updateOnlineStatusIndicator(); }
FinallyBlock(online) ==
  /\ isFetching' = FALSE
  /\ loadingVisible' = FALSE
  /\ formDisabled' = FALSE
  /\ autoUpdateText' = online

\* The invocation returns: its closure is gone.
Return(i) == sessions' = [j \in DOMAIN sessions \ {i} |-> sessions[j]]

\* ------------------------------------------------------- RefreshScheduler

\* startAutoRefresh without its clearInterval.
startAutoRefresh_NoClear ==
  LET used == intervalTimers \cup {autoRefreshInterval}
      id == CHOOSE n \in 1..(Cardinality(used) + 1) :
              n \notin used /\ \A m \in 1..(n - 1) : m \in used
  IN /\ autoRefreshInterval' = id
     /\ intervalTimers' = intervalTimers \cup {id}

\* startAutoRefresh: clearInterval of the handle AppState holds, then
\* setInterval, whose handle is a number no timer has or has just had.
startAutoRefresh ==
  LET kept == IF autoRefreshInterval # 0
              THEN intervalTimers \ {autoRefreshInterval}
              ELSE intervalTimers
      used == intervalTimers \cup {autoRefreshInterval}
      id == CHOOSE n \in 1..(Cardinality(used) + 1) :
              n \notin used /\ \A m \in 1..(n - 1) : m \in used
  IN /\ autoRefreshInterval' = id
     /\ intervalTimers' = kept \cup {id}

\* if (!AppState.autoRefreshInterval) taken on every successful sync.
AutoRefreshStopped_Always == TRUE

\* if (!AppState.autoRefreshInterval), the test before the one call of
\* startAutoRefresh.
AutoRefreshStopped == autoRefreshInterval = 0

\* ---------------------------------------------------------- RateSyncEngine

\* fetchExchangeRates without its guard.
BusyGuard_Off == FALSE

\* if (AppState.isFetching) return;
BusyGuard == isFetching

\* fetchExchangeRates from its call to its first await; baseCurrency is
\* AppState.currentBaseCurrency as the call reads it.  The caller states
\* what becomes of currentBaseCurrency, isOnline, navigatorOnLine,
\* autoUpdateText and initialLoadPending.
fetchExchangeRates(baseCurrency) ==
  /\ IF BusyGuard
     THEN /\ lastCall' = "Busy"
          /\ UNCHANGED <<isFetching, sessions, timeoutTimers, loadingVisible,
                         errorVisible, resultsVisible, fallbackVisible, formDisabled,
                         started>>
     ELSE /\ started + fallbackLoads < MaxOps
          /\ started' = started + 1
          /\ LET i == started + 1
             IN /\ sessions' = (i :> [pc |-> "fetch", baseCurrency |-> baseCurrency,
                                      storeAtStart |-> previousRates]) @@ sessions
                /\ timeoutTimers' = timeoutTimers \cup {i}
          /\ isFetching' = TRUE
          /\ loadingVisible' = TRUE
          /\ errorVisible' = FALSE
          /\ resultsVisible' = FALSE
          /\ fallbackVisible' = FALSE
          /\ formDisabled' = TRUE
          /\ lastCall' = "Started"
  /\ UNCHANGED <<previousRates, currentRates, lastSuccessfulUpdate,
                 autoRefreshInterval, intervalTimers, errorMessage, resultsTitle,
                 displayedChanges, outcome, fallbackLoads>>

\* The catch path also clearing the auto-refresh interval.
Fail_StopsScheduler(i, error, how) ==
  /\ handleFetchError(error, isOnline, previousRates)
  /\ FinallyBlock(isOnline)
  /\ Return(i)
  /\ outcome' = how
  /\ autoRefreshInterval' = 0
  /\ intervalTimers' = {}
  /\ UNCHANGED <<previousRates, currentRates, currentBaseCurrency, isOnline,
                 lastSuccessfulUpdate, navigatorOnLine, initialLoadPending,
                 resultsVisible, resultsTitle, displayedChanges, lastCall, started,
                 fallbackLoads>>

\* catch (error) { handleFetchError(error) } finally { ... } of session i,
\* for an error thrown before any state was touched.
Fail(i, error, how) ==
  /\ handleFetchError(error, isOnline, previousRates)
  /\ FinallyBlock(isOnline)
  /\ Return(i)
  /\ outcome' = how
  /\ UNCHANGED <<previousRates, currentRates, currentBaseCurrency, isOnline,
                 lastSuccessfulUpdate, autoRefreshInterval, navigatorOnLine,
                 intervalTimers, initialLoadPending, resultsVisible, resultsTitle,
                 displayedChanges, lastCall, started, fallbackLoads>>

\* setTimeout(() => fetchExchangeRates(), 500) of initApp fires.
InitialLoad ==
  /\ initialLoadPending
  /\ initialLoadPending' = FALSE
  /\ fetchExchangeRates(currentBaseCurrency)
  /\ UNCHANGED <<currentBaseCurrency, isOnline, navigatorOnLine, autoUpdateText>>
  /\ UNCHANGED swVars

\* window.fetchExchangeRates(): the export for global access.
WindowFetchExchangeRates ==
  /\ fetchExchangeRates(currentBaseCurrency)
  /\ UNCHANGED <<currentBaseCurrency, isOnline, navigatorOnLine, autoUpdateText,
                 initialLoadPending>>
  /\ UNCHANGED swVars

\* A click on #fetchButton; a disabled button dispatches no click.
handleFetchButtonClick ==
  /\ ~formDisabled
  /\ fetchExchangeRates(currentBaseCurrency)
  /\ UNCHANGED <<currentBaseCurrency, isOnline, navigatorOnLine, autoUpdateText,
                 initialLoadPending>>
  /\ UNCHANGED swVars

\* A change of #baseCurrency to another value; a disabled select cannot be
\* changed by the user.
handleCurrencyChange(newBaseCurrency) ==
  /\ ~formDisabled
  /\ newBaseCurrency # currentBaseCurrency
  /\ currentBaseCurrency' = newBaseCurrency
  /\ fetchExchangeRates(newBaseCurrency)
  /\ UNCHANGED <<isOnline, navigatorOnLine, autoUpdateText, initialLoadPending>>
  /\ UNCHANGED swVars

\* handleOnlineStatus without the AppState.isOnline half of its test.
handleOnlineStatus_AlsoOffline(onLine) ==
  /\ onLine # navigatorOnLine
  /\ navigatorOnLine' = onLine
  /\ isOnline' = onLine
  /\ autoUpdateText' = onLine
  /\ IF ~isFetching
     THEN fetchExchangeRates(currentBaseCurrency)
     ELSE UNCHANGED <<previousRates, currentRates, lastSuccessfulUpdate,
                      autoRefreshInterval, isFetching, intervalTimers, timeoutTimers,
                      sessions, loadingVisible, errorVisible, errorMessage,
                      resultsVisible, resultsTitle, displayedChanges, fallbackVisible,
                      formDisabled, lastCall, outcome, started, fallbackLoads>>
  /\ UNCHANGED <<currentBaseCurrency, initialLoadPending>>
  /\ UNCHANGED swVars

\* The host goes online or offline and dispatches the event.
handleOnlineStatus(onLine) ==
  /\ onLine # navigatorOnLine
  /\ navigatorOnLine' = onLine
  /\ isOnline' = onLine
  /\ autoUpdateText' = onLine
  /\ IF onLine /\ ~isFetching
     THEN fetchExchangeRates(currentBaseCurrency)
     ELSE UNCHANGED <<previousRates, currentRates, lastSuccessfulUpdate,
                      autoRefreshInterval, isFetching, intervalTimers, timeoutTimers,
                      sessions, loadingVisible, errorVisible, errorMessage,
                      resultsVisible, resultsTitle, displayedChanges, fallbackVisible,
                      formDisabled, lastCall, outcome, started, fallbackLoads>>
  /\ UNCHANGED <<currentBaseCurrency, initialLoadPending>>
  /\ UNCHANGED swVars

\* The setInterval callback syncing the default base instead of
\* AppState.currentBaseCurrency.
Tick_DefaultBase(t) ==
  /\ t \in intervalTimers
  /\ IF isOnline /\ ~isFetching
     THEN fetchExchangeRates("EUR")
     ELSE UNCHANGED <<previousRates, currentRates, lastSuccessfulUpdate,
                      autoRefreshInterval, isFetching, intervalTimers, timeoutTimers,
                      sessions, loadingVisible, errorVisible, errorMessage,
                      resultsVisible, resultsTitle, displayedChanges, fallbackVisible,
                      formDisabled, lastCall, outcome, started, fallbackLoads>>
  /\ UNCHANGED <<currentBaseCurrency, isOnline, navigatorOnLine, autoUpdateText,
                 initialLoadPending>>
  /\ UNCHANGED swVars

\* The setInterval callback without its `isOnline && !isFetching` test.
Tick_Unguarded(t) ==
  /\ t \in intervalTimers
  /\ fetchExchangeRates(currentBaseCurrency)
  /\ UNCHANGED <<currentBaseCurrency, isOnline, navigatorOnLine, autoUpdateText,
                 initialLoadPending>>
  /\ UNCHANGED swVars

\* The setInterval callback of startAutoRefresh runs.
Tick(t) ==
  /\ t \in intervalTimers
  /\ IF isOnline /\ ~isFetching
     THEN fetchExchangeRates(currentBaseCurrency)
     ELSE UNCHANGED <<previousRates, currentRates, lastSuccessfulUpdate,
                      autoRefreshInterval, isFetching, intervalTimers, timeoutTimers,
                      sessions, loadingVisible, errorVisible, errorMessage,
                      resultsVisible, resultsTitle, displayedChanges, fallbackVisible,
                      formDisabled, lastCall, outcome, started, fallbackLoads>>
  /\ UNCHANGED <<currentBaseCurrency, isOnline, navigatorOnLine, autoUpdateText,
                 initialLoadPending>>
  /\ UNCHANGED swVars

\* await fetch(...) resolves with response headers of the given status:
\* clearTimeout, then the response.ok test.
FetchResolve(i, status) ==
  /\ i \in DOMAIN sessions
  /\ sessions[i].pc = "fetch"
  /\ timeoutTimers' = timeoutTimers \ {i}
  /\ IF status \in 200..299
     THEN /\ sessions' = [sessions EXCEPT ![i].pc = "body"]
          /\ UNCHANGED <<appVars, navigatorOnLine, intervalTimers, initialLoadPending,
                         domVars, lastCall, outcome, started, fallbackLoads>>
     ELSE Fail(i, ApiError(status), "ApiError")
  /\ UNCHANGED swVars

\* await fetch(...) rejects: the transport failed.  clearTimeout is skipped.
FetchReject(i) ==
  /\ i \in DOMAIN sessions
  /\ sessions[i].pc = "fetch"
  /\ Fail(i, FetchTypeError, "Transport")
  /\ UNCHANGED timeoutTimers
  /\ UNCHANGED swVars

\* The timeout made a repeating timer: it stays pending after it has fired.
TimeoutFire_Repeating(i) ==
  /\ i \in timeoutTimers
  /\ UNCHANGED timeoutTimers
  /\ IF i \in DOMAIN sessions
     THEN Fail(i, AbortError, "Timeout")
     ELSE UNCHANGED <<appVars, navigatorOnLine, intervalTimers, sessions,
                      initialLoadPending, domVars, lastCall, outcome, started, fallbackLoads>>
  /\ UNCHANGED swVars

\* The timeout aborting whatever request is in flight, as it would with one
\* controller shared by all syncs.
TimeoutFire_SharedController(i) ==
  /\ i \in timeoutTimers
  /\ timeoutTimers' = timeoutTimers \ {i}
  /\ IF DOMAIN sessions # {}
     THEN Fail(CHOOSE j \in DOMAIN sessions : TRUE, AbortError, "Timeout")
     ELSE UNCHANGED <<appVars, navigatorOnLine, intervalTimers, sessions,
                      initialLoadPending, domVars, lastCall, outcome, started, fallbackLoads>>
  /\ UNCHANGED swVars

\* The timeout timer of closure i fires: controller.abort().  A pending
\* fetch, or a pending body read, of that closure rejects with AbortError;
\* an invocation that has returned is not affected.
TimeoutFire(i) ==
  /\ i \in timeoutTimers
  /\ timeoutTimers' = timeoutTimers \ {i}
  /\ IF i \in DOMAIN sessions
     THEN Fail(i, AbortError, "Timeout")
     ELSE UNCHANGED <<appVars, navigatorOnLine, intervalTimers, sessions,
                      initialLoadPending, domVars, lastCall, outcome, started, fallbackLoads>>
  /\ UNCHANGED swVars

\* await response.json() rejects: the body is not JSON, or the transport
\* failed while the body was read.
BodyReject(i) ==
  /\ i \in DOMAIN sessions
  /\ sessions[i].pc = "body"
  /\ Fail(i, JsonSyntaxError, "BodyError")
  /\ UNCHANGED timeoutTimers
  /\ UNCHANGED swVars

\* The success path reading AppState.currentBaseCurrency again instead of
\* its const baseCurrency.
BodyResolve_CurrentBase(i, payload) ==
  /\ i \in DOMAIN sessions
  /\ sessions[i].pc = "body"
  /\ UNCHANGED timeoutTimers
  /\ IF InvalidRates(payload)
     THEN Fail(i, InvalidResponse, "Malformed")
     ELSE LET baseCurrency == currentBaseCurrency
              changes == calculateRealTimeChanges(payload.rates, baseCurrency)
              store == StoreAfterCalculate(payload.rates, baseCurrency)
          IN /\ previousRates' = store
             /\ lastSuccessfulUpdate' = IF lastSuccessfulUpdate = 1 THEN 2 ELSE 1
             /\ isOnline' = TRUE
             /\ currentRates' = payload.rates
             /\ resultsTitle' = baseCurrency
             /\ IF DisplayThrows(payload.rates, baseCurrency)
                THEN /\ handleFetchError(ToFixedTypeError, TRUE, store)
                     /\ outcome' = "Exception"
                     /\ UNCHANGED <<resultsVisible, displayedChanges,
                                    autoRefreshInterval, intervalTimers>>
                ELSE /\ resultsVisible' = TRUE
                     /\ displayedChanges' = changes
                     /\ IF AutoRefreshStopped
                        THEN startAutoRefresh
                        ELSE UNCHANGED <<autoRefreshInterval, intervalTimers>>
                     /\ outcome' = "Success"
                     /\ UNCHANGED <<errorVisible, errorMessage, fallbackVisible>>
             /\ FinallyBlock(TRUE)
             /\ Return(i)
             /\ UNCHANGED <<currentBaseCurrency, navigatorOnLine, initialLoadPending,
                            lastCall, started, fallbackLoads>>
  /\ UNCHANGED swVars

\* await response.json() resolves with a body whose rates field is payload.
BodyResolve(i, payload) ==
  /\ i \in DOMAIN sessions
  /\ sessions[i].pc = "body"
  /\ UNCHANGED timeoutTimers
  /\ IF InvalidRates(payload)
     THEN Fail(i, InvalidResponse, "Malformed")
     ELSE LET baseCurrency == sessions[i].baseCurrency
              changes == calculateRealTimeChanges(payload.rates, baseCurrency)
              store == StoreAfterCalculate(payload.rates, baseCurrency)
          IN /\ previousRates' = store
             /\ lastSuccessfulUpdate' = IF lastSuccessfulUpdate = 1 THEN 2 ELSE 1
             /\ isOnline' = TRUE
             /\ currentRates' = payload.rates
             /\ resultsTitle' = baseCurrency
             /\ IF DisplayThrows(payload.rates, baseCurrency)
                THEN /\ handleFetchError(ToFixedTypeError, TRUE, store)
                     /\ outcome' = "Exception"
                     /\ UNCHANGED <<resultsVisible, displayedChanges,
                                    autoRefreshInterval, intervalTimers>>
                ELSE /\ resultsVisible' = TRUE
                     /\ displayedChanges' = changes
                     /\ IF AutoRefreshStopped
                        THEN startAutoRefresh
                        ELSE UNCHANGED <<autoRefreshInterval, intervalTimers>>
                     /\ outcome' = "Success"
                     /\ UNCHANGED <<errorVisible, errorMessage, fallbackVisible>>
             /\ FinallyBlock(TRUE)
             /\ Return(i)
             /\ UNCHANGED <<currentBaseCurrency, navigatorOnLine, initialLoadPending,
                            lastCall, started, fallbackLoads>>
  /\ UNCHANGED swVars

\* window.loadFallbackData(): the export for global access.
loadFallbackData(sample) ==
  LET baseCurrency == currentBaseCurrency
      changes == calculateRealTimeChanges(sample, baseCurrency)
  IN /\ started + fallbackLoads < MaxOps
     /\ fallbackLoads' = fallbackLoads + 1
     /\ previousRates' = StoreAfterCalculate(sample, baseCurrency)
     /\ errorVisible' = FALSE
     /\ resultsTitle' = baseCurrency
     /\ displayedChanges' = changes
     /\ resultsVisible' = TRUE
     /\ fallbackVisible' = TRUE
     /\ UNCHANGED <<currentRates, currentBaseCurrency, isOnline, lastSuccessfulUpdate,
                    autoRefreshInterval, isFetching, hostVars, loadingVisible,
                    errorMessage, formDisabled, autoUpdateText, lastCall, outcome,
                    started>>
     /\ UNCHANGED swVars

Next ==
  \/ InitialLoad
  \/ WindowFetchExchangeRates
  \/ handleFetchButtonClick
  \/ \E b \in Bases : handleCurrencyChange(b)
  \/ \E onLine \in BOOLEAN : handleOnlineStatus(onLine)
  \/ \E t \in intervalTimers : Tick(t)
  \/ \E i \in 1..MaxOps, status \in Statuses : FetchResolve(i, status)
  \/ \E i \in 1..MaxOps : FetchReject(i)
  \/ \E i \in 1..MaxOps : TimeoutFire(i)
  \/ \E i \in 1..MaxOps : BodyReject(i)
  \/ \E i \in 1..MaxOps, payload \in Payloads : BodyResolve(i, payload)
  \/ \E sample \in Samples : loadFallbackData(sample)

Spec == Init /\ [][Next]_vars

\* Timers fire: a pending timeout timer is eventually run.  Nothing obliges
\* the network to answer.
FairSpec == Spec /\ \A i \in 1..MaxOps : WF_vars(TimeoutFire(i))

\* Timers fire, the interval timer included: a tick that would start a sync
\* eventually runs.
TickSpec ==
  /\ Spec
  /\ WF_vars(\E t \in intervalTimers : Tick(t))
  /\ \A i \in 1..MaxOps : WF_vars(TimeoutFire(i))

\* A change event reaches the listener of #baseCurrency whatever the state of
\* the select is (an event dispatched by script, or a choice made in a list
\* that was open when the select was disabled): handleCurrencyChange itself
\* tests nothing.
DispatchedCurrencyChange(newBaseCurrency) ==
  /\ newBaseCurrency # currentBaseCurrency
  /\ currentBaseCurrency' = newBaseCurrency
  /\ fetchExchangeRates(newBaseCurrency)
  /\ UNCHANGED <<isOnline, navigatorOnLine, autoUpdateText, initialLoadPending>>
  /\ UNCHANGED swVars

ChangeNext == Next \/ \E b \in Bases : DispatchedCurrencyChange(b)

ChangeSpec == Init /\ [][ChangeNext]_vars

\* Timers fire and the network answers: a pending fetch or body read is
\* eventually settled.
ChangeFairSpec ==
  /\ ChangeSpec
  /\ WF_vars(\E t \in intervalTimers : Tick(t))
  /\ \A i \in 1..MaxOps :
       /\ WF_vars(TimeoutFire(i))
       /\ WF_vars((\E status \in Statuses : FetchResolve(i, status)) \/ FetchReject(i))
       /\ WF_vars((\E payload \in Payloads : BodyResolve(i, payload)) \/ BodyReject(i))

\* calculateRealTimeChanges exercised on its own: one call with a table and a
\* base, from any store earlier calls have left.  currentRates and
\* resultsTitle hold the arguments of the latest call, displayedChanges the
\* object it returned.
Calculate(rates, baseCurrency) ==
  /\ displayedChanges' = calculateRealTimeChanges(rates, baseCurrency)
  /\ previousRates' = StoreAfterCalculate(rates, baseCurrency)
  /\ currentRates' = rates
  /\ resultsTitle' = baseCurrency
  /\ UNCHANGED <<currentBaseCurrency, isOnline, lastSuccessfulUpdate,
                 autoRefreshInterval, isFetching, hostVars, loadingVisible,
                 errorVisible, errorMessage, resultsVisible, fallbackVisible,
                 formDisabled, autoUpdateText, lastCall, outcome, started,
                 fallbackLoads>>
  /\ UNCHANGED swVars

CalcNext == \E rates \in CalcTables, baseCurrency \in Bases : Calculate(rates, baseCurrency)

CalcSpec == Init /\ [][CalcNext]_vars

\* The page with startAutoRefresh also called on its own, in any state: the
\* function is a top-level declaration of the script.
CallStartAutoRefresh ==
  /\ startAutoRefresh
  /\ UNCHANGED <<previousRates, currentRates, currentBaseCurrency, isOnline,
                 lastSuccessfulUpdate, isFetching, navigatorOnLine, timeoutTimers,
                 sessions, initialLoadPending, domVars, lastCall, outcome, started,
                 fallbackLoads>>
  /\ UNCHANGED swVars

SchedNext == Next \/ CallStartAutoRefresh

SchedSpec == Init /\ [][SchedNext]_vars

\* ------------------------------------------------------- sw.js: the worker

\* The response caches.match(request) resolves with: the entry of the first
\* cache, in creation order, that has one for the URL; undefined otherwise.
Undefined == [kind |-> "undefined", from |-> "", at |-> 0]
MatchAll(url) ==
  LET hits == {k \in 1..Len(cacheNames) : url \in DOMAIN cacheEntries[cacheNames[k]]}
  IN IF hits = {}
     THEN Undefined
     ELSE LET k == CHOOSE h \in hits : \A g \in hits : h <= g
          IN [kind |-> "cached", from |-> cacheNames[k],
              at |-> cacheEntries[cacheNames[k]][url]]

\* What respondWith has been given so far for a fetch event.
Pending == [kind |-> "pending", from |-> "", at |-> 0]
\* The live response of fetch event e.
Live(e) == [kind |-> "live", from |-> "network", at |-> e + 1]
\* The promise given to respondWith rejected, or resolved with undefined:
\* the page's fetch fails with a network error.
NetworkError == [kind |-> "error", from |-> "", at |-> 0]

\* The statuses a live response of the API is taken to have, one ok and one
\* not; the worker looks at none, the page only at response.ok.
SwStatuses == {200, 500}

\* The status of the response that was stored as generation `at`: an entry
\* that cache.addAll stored, now or in an earlier version, is a 200 (addAll
\* rejects on any other status); the clone of the live response of fetch
\* event e has that response's status.
StatusOf(at) == IF at <= 1 THEN 200 ELSE fetchEvents[at - 1].status

\* caches.open(name): the cache of that name, created last if there is none.
NamesAfterOpen(name) ==
  IF \E k \in 1..Len(cacheNames) : cacheNames[k] = name
  THEN cacheNames
  ELSE Append(cacheNames, name)
EntriesAfterOpen(name) ==
  [n \in DOMAIN cacheEntries \cup {name} |->
     IF n \in DOMAIN cacheEntries THEN cacheEntries[n] ELSE NoEntries]

\* install: caches.open(CACHE_NAME).
InstallOpen ==
  /\ swState = "parsed"
  /\ swState' = "installing"
  /\ cacheNames' = NamesAfterOpen(CACHE_NAME)
  /\ cacheEntries' = EntriesAfterOpen(CACHE_NAME)
  /\ UNCHANGED <<toDelete, fetchEvents, pendingPuts>>
  /\ UNCHANGED pageVars

\* install: cache.addAll(STATIC_ASSETS) has fetched and stored every asset;
\* skipWaiting makes the worker the active one, and activation begins.
InstallAddAll ==
  /\ swState = "installing"
  /\ swState' = "activating"
  /\ cacheEntries' =
       [cacheEntries EXCEPT ![CACHE_NAME] =
          [u \in DOMAIN cacheEntries[CACHE_NAME] \cup STATIC_ASSETS |->
             IF u \in STATIC_ASSETS THEN 1 ELSE cacheEntries[CACHE_NAME][u]]]
  /\ UNCHANGED <<cacheNames, toDelete, fetchEvents, pendingPuts>>
  /\ UNCHANGED pageVars

\* install: one of the assets could not be fetched; addAll rejects, nothing
\* is stored and the worker is discarded.
InstallFail ==
  /\ swState = "installing"
  /\ swState' = "redundant"
  /\ UNCHANGED <<cacheNames, cacheEntries, toDelete, fetchEvents, pendingPuts>>
  /\ UNCHANGED pageVars

\* activate: caches.keys() resolves, and caches.delete is called for every
\* name that is neither CACHE_NAME nor API_CACHE_NAME.
ActivateKeys ==
  /\ swState = "activating"
  /\ swState' = "deleting"
  /\ toDelete' = {cacheNames[k] : k \in 1..Len(cacheNames)} \ {CACHE_NAME, API_CACHE_NAME}
  /\ UNCHANGED <<cacheNames, cacheEntries, fetchEvents, pendingPuts>>
  /\ UNCHANGED pageVars

\* activate: one caches.delete settles.
ActivateDelete(name) ==
  /\ swState = "deleting"
  /\ name \in toDelete
  /\ toDelete' = toDelete \ {name}
  /\ cacheNames' = SelectSeq(cacheNames, LAMBDA n : n # name)
  /\ cacheEntries' = [n \in DOMAIN cacheEntries \ {name} |-> cacheEntries[n]]
  /\ UNCHANGED <<swState, fetchEvents, pendingPuts>>
  /\ UNCHANGED pageVars

\* The activation made not to wait for the deletions (no Promise.all).
ActivateDone_NoWait ==
  /\ swState = "deleting"
  /\ swState' = "activated"
  /\ UNCHANGED <<cacheNames, cacheEntries, toDelete, fetchEvents, pendingPuts>>
  /\ UNCHANGED pageVars

\* activate: Promise.all has resolved, clients.claim(); the promise given to
\* waitUntil settles and the worker is activated.
ActivateDone ==
  /\ swState = "deleting"
  /\ toDelete = {}
  /\ swState' = "activated"
  /\ UNCHANGED <<cacheNames, cacheEntries, toDelete, fetchEvents, pendingPuts>>
  /\ UNCHANGED pageVars

\* A fetch event for url is dispatched (the host dispatches none before the
\* worker is activated) and the listener runs: the API branch calls
\* fetch(request), the other branch caches.match(request).
FetchEvent(url) ==
  /\ swState = "activated"
  /\ Cardinality(DOMAIN fetchEvents) < MaxRequests
  /\ LET e == Cardinality(DOMAIN fetchEvents) + 1
     IN fetchEvents' =
          (e :> [url |-> url,
                 pc |-> IF IsApiRequest(url) THEN "fetch" ELSE "match",
                 liveRequests |-> IF IsApiRequest(url) THEN 1 ELSE 0,
                 status |-> 0,
                 response |-> Pending]) @@ fetchEvents
  /\ UNCHANGED <<swState, cacheNames, cacheEntries, toDelete, pendingPuts>>
  /\ UNCHANGED pageVars

\* The static branch made network first: the cache is not consulted.
StaticMatch_NetworkFirst(e) ==
  /\ e \in DOMAIN fetchEvents
  /\ fetchEvents[e].pc = "match"
  /\ fetchEvents' =
       [fetchEvents EXCEPT ![e] = [@ EXCEPT !.pc = "fetch", !.liveRequests = @ + 1]]
  /\ UNCHANGED <<swState, cacheNames, cacheEntries, toDelete, pendingPuts>>
  /\ UNCHANGED pageVars

\* Static branch: caches.match(request) resolves; a hit is the response, a
\* miss calls fetch(request).
StaticMatch(e) ==
  /\ e \in DOMAIN fetchEvents
  /\ fetchEvents[e].pc = "match"
  /\ LET hit == MatchAll(fetchEvents[e].url)
     IN fetchEvents' =
          [fetchEvents EXCEPT ![e] =
             IF hit.kind = "cached"
             THEN [@ EXCEPT !.pc = "done", !.response = hit]
             ELSE [@ EXCEPT !.pc = "fetch", !.liveRequests = @ + 1]]
  /\ UNCHANGED <<swState, cacheNames, cacheEntries, toDelete, pendingPuts>>
  /\ UNCHANGED pageVars

\* The static branch made to store the live response in the static cache.
NetworkResolve_CacheStatic(e) ==
  /\ e \in DOMAIN fetchEvents
  /\ fetchEvents[e].pc = "fetch"
  /\ \E status \in SwStatuses :
       fetchEvents' =
         [fetchEvents EXCEPT ![e].pc = "done", ![e].response = Live(e),
                             ![e].status = IF IsApiRequest(fetchEvents[e].url)
                                           THEN status ELSE 0]
  /\ pendingPuts' =
       IF IsApiRequest(fetchEvents[e].url)
       THEN pendingPuts \cup {[url |-> fetchEvents[e].url, at |-> e + 1]}
       ELSE pendingPuts
  /\ cacheNames' = cacheNames
  /\ cacheEntries' =
       IF IsApiRequest(fetchEvents[e].url)
       THEN cacheEntries
       ELSE [cacheEntries EXCEPT ![CACHE_NAME] =
               [u \in DOMAIN @ \cup {fetchEvents[e].url} |->
                  IF u = fetchEvents[e].url THEN e + 1 ELSE @[u]]]
  /\ UNCHANGED <<swState, toDelete>>
  /\ UNCHANGED pageVars

\* fetch(request) resolves, with a response of any status: the response is
\* what respondWith gets; the API branch first clones it and starts
\* caches.open(API_CACHE_NAME), whose callback will put the clone.
NetworkResolve(e) ==
  /\ e \in DOMAIN fetchEvents
  /\ fetchEvents[e].pc = "fetch"
  /\ \E status \in SwStatuses :
       fetchEvents' =
         [fetchEvents EXCEPT ![e].pc = "done", ![e].response = Live(e),
                             ![e].status = IF IsApiRequest(fetchEvents[e].url)
                                           THEN status ELSE 0]
  /\ pendingPuts' =
       IF IsApiRequest(fetchEvents[e].url)
       THEN pendingPuts \cup {[url |-> fetchEvents[e].url, at |-> e + 1]}
       ELSE pendingPuts
  /\ UNCHANGED <<swState, cacheNames, cacheEntries, toDelete>>
  /\ UNCHANGED pageVars

\* fetch(request) rejects: the static branch passes the rejection on, the
\* API branch's catch calls caches.match(request).
NetworkReject(e) ==
  /\ e \in DOMAIN fetchEvents
  /\ fetchEvents[e].pc = "fetch"
  /\ fetchEvents' =
       [fetchEvents EXCEPT ![e] =
          IF IsApiRequest(fetchEvents[e].url)
          THEN [@ EXCEPT !.pc = "fallback"]
          ELSE [@ EXCEPT !.pc = "done", !.response = NetworkError]]
  /\ UNCHANGED <<swState, cacheNames, cacheEntries, toDelete, pendingPuts>>
  /\ UNCHANGED pageVars

\* API branch: the caches.match(request) of the catch resolves.
ApiFallbackMatch(e) ==
  /\ e \in DOMAIN fetchEvents
  /\ fetchEvents[e].pc = "fallback"
  /\ LET hit == MatchAll(fetchEvents[e].url)
     IN fetchEvents' =
          [fetchEvents EXCEPT ![e].pc = "done",
                              ![e].response = IF hit.kind = "cached" THEN hit
                                              ELSE NetworkError]
  /\ UNCHANGED <<swState, cacheNames, cacheEntries, toDelete, pendingPuts>>
  /\ UNCHANGED pageVars

\* The put of the API branch made into the static cache.
CachePut_IntoStatic(p) ==
  /\ p \in pendingPuts
  /\ pendingPuts' = pendingPuts \ {p}
  /\ cacheNames' = NamesAfterOpen(CACHE_NAME)
  /\ cacheEntries' =
       [EntriesAfterOpen(CACHE_NAME) EXCEPT ![CACHE_NAME] =
          [u \in DOMAIN @ \cup {p.url} |-> IF u = p.url THEN p.at ELSE @[u]]]
  /\ UNCHANGED <<swState, toDelete, fetchEvents>>
  /\ UNCHANGED pageVars

\* API branch: caches.open(API_CACHE_NAME) resolves and its callback runs
\* cache.put(request, responseClone).
CachePut(p) ==
  /\ p \in pendingPuts
  /\ pendingPuts' = pendingPuts \ {p}
  /\ cacheNames' = NamesAfterOpen(API_CACHE_NAME)
  /\ cacheEntries' =
       [EntriesAfterOpen(API_CACHE_NAME) EXCEPT ![API_CACHE_NAME] =
          [u \in DOMAIN @ \cup {p.url} |-> IF u = p.url THEN p.at ELSE @[u]]]
  /\ UNCHANGED <<swState, toDelete, fetchEvents>>
  /\ UNCHANGED pageVars

SwInit == PageInit /\ \E storage \in InitialStorages : SwStart(storage)

SwNext ==
  \/ InstallOpen
  \/ InstallAddAll
  \/ InstallFail
  \/ ActivateKeys
  \/ \E name \in {StaleCacheName} : ActivateDelete(name)
  \/ ActivateDone
  \/ \E url \in Requests : FetchEvent(url)
  \/ \E e \in 1..MaxRequests : StaticMatch(e)
  \/ \E e \in 1..MaxRequests : NetworkResolve(e)
  \/ \E e \in 1..MaxRequests : NetworkReject(e)
  \/ \E e \in 1..MaxRequests : ApiFallbackMatch(e)
  \/ \E p \in pendingPuts : CachePut(p)

SwSpec == SwInit /\ [][SwNext]_vars

\* The callbacks of settled promises run: a put that has been started is
\* eventually made.
SwFairSpec == SwSpec /\ WF_vars(\E p \in pendingPuts : CachePut(p))

\* ------------------------------------------------------------------ claims

\* Invocation i of fetchExchangeRates returns in this step.
Completes(i) == i \in DOMAIN sessions /\ i \notin DOMAIN sessions'

\* This step is a handler that calls fetchExchangeRates unconditionally.
CallsFetch ==
  \/ InitialLoad
  \/ WindowFetchExchangeRates
  \/ handleFetchButtonClick
  \/ \E b \in Bases : handleCurrencyChange(b)

\* C1: at most one invocation of fetchExchangeRates is between the busy guard
\* and its finally block in every reachable state, and no sync starts in a
\* step taken while one is active (neither by a call made then, nor when the
\* active one returns).
C1_AtMostOneSession ==
  /\ [](Cardinality(DOMAIN sessions) <= 1)
  /\ [][isFetching => started' = started /\ DOMAIN sessions' \subseteq DOMAIN sessions]_vars

\* C1 witness: a sync is active and the latest call was rejected.
C1_Witness ==
  isFetching /\ Cardinality(DOMAIN sessions) = 1 /\ lastCall = "Busy"

\* C2: a call of fetchExchangeRates made while isFetching is true leaves the
\* store, currentRates, lastSuccessfulUpdate, isOnline, the interval timer,
\* the busy flag and every panel as they were, and issues no request (no
\* invocation and no timeout timer is added).
C2_BusyCallChangesNothing ==
  [][(isFetching /\ CallsFetch) =>
       UNCHANGED <<previousRates, currentRates, lastSuccessfulUpdate, isOnline,
                   autoRefreshInterval, intervalTimers, isFetching, domVars,
                   sessions, timeoutTimers, started>>]_vars

\* C2 witness: a call returned Busy while the first sync awaits its response.
C2_Witness ==
  /\ lastCall = "Busy"
  /\ isFetching
  /\ started = 1
  /\ \E i \in DOMAIN sessions : sessions[i].pc = "fetch"

\* C3: the step in which an invocation of fetchExchangeRates that set the
\* busy flag returns, whichever way, ends with isFetching false.
C3_CompletionClearsBusy ==
  [][(\E i \in 1..MaxOps : Completes(i)) => isFetching' = FALSE]_vars

\* C3 witness: a sync ended in the exception displayResults threw, and the
\* flag is clear.
C3_Witness == outcome = "Exception" /\ ~isFetching /\ DOMAIN sessions = {}

\* C4: whenever a sync is active it eventually completes, given only that
\* timers fire.
C4_EverySyncCompletes == isFetching ~> ~isFetching

\* C5: when the timeout timer of an active sync fires, the sync ends as a
\* timeout (that message is shown), the store is left as it was and the busy
\* flag is clear, so that the guard of the next call passes.
C5_TimeoutFailsCleanly ==
  [][\A i \in DOMAIN sessions :
       TimeoutFire(i) =>
         /\ Completes(i)
         /\ outcome' = "Timeout"
         /\ errorVisible' /\ errorMessage'.text = "Request timeout"
         /\ previousRates' = previousRates
         /\ isFetching' = FALSE]_vars

\* C5 witness: of two syncs the first timed out (its message is still the
\* text of the hidden error panel) and the second, accepted after it,
\* succeeded.
C5_Witness ==
  /\ started = 2
  /\ fallbackLoads = 0
  /\ outcome = "Success"
  /\ errorMessage.text = "Request timeout"
  /\ ~errorVisible
  /\ ~isFetching

\* C6: a sync that ends on an error path has not written the store: the step
\* that ends it (the only step of a sync that writes AppState) leaves
\* previousRates as it was.
C6_ErrorPathsKeepStore ==
  [][\A i \in 1..MaxOps :
       (Completes(i) /\ outcome' # "Success") => previousRates' = previousRates]_vars

\* C7: lastSuccessfulUpdate changes only in a step that ends a sync with the
\* results shown and no error shown.
C7_TimestampOnlyOnSuccess ==
  [][lastSuccessfulUpdate' # lastSuccessfulUpdate =>
       /\ \E i \in 1..MaxOps : Completes(i)
       /\ resultsVisible'
       /\ ~errorVisible']_vars

\* C8: a body whose rates value is missing or is not a table keyed by
\* currency code ends the sync as an invalid response, with the store,
\* currentRates and lastSuccessfulUpdate left as they were.
C8_MalformedRejected ==
  [][\A i \in DOMAIN sessions : \A p \in Payloads :
       (p.kind # "object" /\ BodyResolve(i, p)) =>
         /\ outcome' = "Malformed"
         /\ errorVisible' /\ errorMessage'.text = "Invalid response from server"
         /\ UNCHANGED <<previousRates, currentRates, lastSuccessfulUpdate>>]_vars

\* C9: the ChangeSet a successful sync hands to displayResults is the diff of
\* the delivered table against the store as it was when that sync began.
C9_DiffAgainstStoreAtStart ==
  [][\A i \in 1..MaxOps :
       (Completes(i) /\ outcome' = "Success") =>
         displayedChanges' =
           ChangesAgainst(sessions[i].storeAtStart, currentRates', sessions[i].baseCurrency)]_vars

\* C10: the store changes only in a step in which a sync completes.
C10_StoreWrittenOnlyBySync ==
  [][previousRates' # previousRates => \E i \in 1..MaxOps : Completes(i)]_vars

\* What the step that ends a successful sync for base b with table T leaves
\* in the store: previousRates[b] = T (no code of the snapshot b had before
\* is kept unless T has it), every other base's entry as it was.
SuccessOverwritesOwnEntry ==
  [][\A i \in DOMAIN sessions : \A p \in Payloads :
       (BodyResolve(i, p) /\ outcome' = "Success") =>
         LET b == sessions[i].baseCurrency
         IN /\ DOMAIN previousRates' = DOMAIN previousRates \cup {b}
            /\ previousRates'[b] = p.rates
            /\ \A o \in DOMAIN previousRates \ {b} :
                  previousRates'[o] = previousRates[o]]_vars

\* C11: the store gains an entry for a base only in the step that ends a
\* successful sync for that base, and a successful sync for base b with
\* table T overwrites the entry of b with T and leaves the other entries.
C11_StoreEntryIsLastSyncedTable ==
  /\ [][\A b \in Bases :
          (b \notin DOMAIN previousRates /\ b \in DOMAIN previousRates') =>
            \E i \in 1..MaxOps :
               Completes(i) /\ sessions[i].baseCurrency = b /\ outcome' = "Success"]_vars
  /\ SuccessOverwritesOwnEntry

\* C12: calculateRealTimeChanges returns the empty object for every table
\* when the store has no entry for the base, so a successful sync for a
\* base without an entry displays an empty ChangeSet.
C12_NoSnapshotNoChanges ==
  /\ [](\A p \in Payloads : \A b \in Bases :
          b \notin DOMAIN previousRates =>
            calculateRealTimeChanges(p.rates, b) = EmptyObj)
  /\ [][\A i \in DOMAIN sessions : \A p \in Payloads :
          (/\ BodyResolve(i, p)
           /\ outcome' = "Success"
           /\ sessions[i].baseCurrency \notin DOMAIN previousRates) =>
            displayedChanges' = EmptyObj]_vars

\* C12 witness: the first sync, for EUR with nothing stored, delivered T1 and
\* ended with an empty ChangeSet on display.
C12_Witness ==
  /\ started = 1 /\ fallbackLoads = 0
  /\ outcome = "Success"
  /\ currentRates = T1
  /\ DOMAIN previousRates = {"EUR"}
  /\ resultsVisible
  /\ displayedChanges = EmptyObj

\* C13: for a currency compared by a call of calculateRealTimeChanges whose
\* rate is a number in both tables, the entry is
\* (current - previous) / previous * 100, replaced by 0 when its magnitude is
\* below 0.001 and left as it is otherwise, a magnitude of exactly 0.001
\* included.
C13_ThresholdBelowOnly ==
  [][\A rates \in CalcTables : \A b \in DOMAIN previousRates :
       Calculate(rates, b) =>
         \A c \in DOMAIN displayedChanges' :
            LET current == rates[c]
                previous == previousRates[b][c]
                num == (current.val - previous.val) * 100
                den == previous.val
            IN (current.type = "number" /\ previous.type = "number") =>
                 displayedChanges'[c] =
                   IF Abs(num) * 1000 < Abs(den)
                   THEN Stable
                   ELSE [num |-> num, den |-> den]]_vars

\* C14: the keys of the object calculateRealTimeChanges returns are exactly
\* the codes present in both the delivered table and the stored table of the
\* base, whatever the code.
C14_KeysAreCommonCodes ==
  [][\A rates \in CalcTables : \A b \in DOMAIN previousRates :
       Calculate(rates, b) =>
         DOMAIN displayedChanges' = DOMAIN rates \cap DOMAIN previousRates[b]]_vars

\* JS: !x holds of the number 0 (and of a missing key's undefined).
Falsy(rate) == rate.type = "number" /\ rate.val = 0

\* C14 as the code has it: the keys are the codes of CONFIG.TARGET_CURRENCIES
\* other than the base that are present in both tables with a rate that is
\* not 0; every other code gets no entry.
C14_KeysAreCommonTargets ==
  [][\A rates \in CalcTables : \A b \in DOMAIN previousRates :
       Calculate(rates, b) =>
         DOMAIN displayedChanges' =
           {c \in (DOMAIN rates \cap DOMAIN previousRates[b]) \cap TARGET_CURRENCIES :
              c # b /\ ~Falsy(rates[c]) /\ ~Falsy(previousRates[b][c])}]_vars

\* C14 witness: U1 was compared with the stored U0 for base EUR: of the codes
\* the two share, EUR (the base), JPY (0 in U0) and NZD (not a target) got no
\* entry, and CNY (absent from U0) got none.
C14_Witness ==
  /\ currentRates = U1
  /\ resultsTitle = "EUR"
  /\ DOMAIN displayedChanges = {"CHF", "CAD", "AUD"}

\* A call of calculateRealTimeChanges that repeats the arguments of the call
\* before it returns what that call returned.
SameCallSameChanges ==
  [][\A rates \in CalcTables : \A b \in Bases :
       (Calculate(rates, b) /\ currentRates = rates /\ resultsTitle = b) =>
         displayedChanges' = displayedChanges]_vars

\* C15: a call of calculateRealTimeChanges leaves AppState as it was, and a
\* call that repeats the table and the base of the call before it returns
\* the same ChangeSet.
C15_CalculatorIsPure ==
  /\ [][\A rates \in CalcTables : \A b \in Bases :
          Calculate(rates, b) => previousRates' = previousRates]_vars
  /\ SameCallSameChanges

\* The sync before the one that completes now was successful, for base b,
\* and nothing but syncs has written the store: its table is currentRates
\* and is the snapshot of b.
ConsecutiveSuccess(b) ==
  /\ fallbackLoads = 0
  /\ outcome = "Success"
  /\ DOMAIN previousRates = {b}

\* Tables t and u have the same codes, all with numeric rates, and differ in
\* the rate of c only.
DiffersOnlyIn(t, u, c) ==
  /\ DOMAIN t = DOMAIN u
  /\ \A d \in DOMAIN t : t[d].type = "number" /\ u[d].type = "number"
  /\ c \in DOMAIN t
  /\ t[c] # u[c]
  /\ \A d \in DOMAIN t \ {c} : t[d] = u[d]

OwnSnapshotOnly(store, b) == [x \in {b} \cap DOMAIN store |-> store[x]]

\* C17: a successful sync for a base without a snapshot displays the empty
\* ChangeSet whatever the other bases have stored, and a successful sync for
\* a base with a snapshot displays the diff against that snapshot: the
\* result is the one the store gives with the other bases' entries removed.
C17_BasesIndependent ==
  [][\A i \in DOMAIN sessions : \A p \in Payloads :
       (BodyResolve(i, p) /\ outcome' = "Success") =>
         LET b == sessions[i].baseCurrency
         IN /\ b \notin DOMAIN previousRates => displayedChanges' = EmptyObj
            /\ displayedChanges' =
                 ChangesAgainst(OwnSnapshotOnly(previousRates, b), p.rates, b)]_vars

\* C17 witness: EUR was synced with T1, the base switched to USD and synced
\* with T2, then switched back to EUR and synced with T2: the ChangeSet on
\* display is the diff against EUR's T1, not against USD's T2.
C17_Witness ==
  /\ started = 3 /\ fallbackLoads = 0
  /\ outcome = "Success"
  /\ currentBaseCurrency = "EUR"
  /\ resultsTitle = "EUR"
  /\ DOMAIN previousRates = {"EUR", "USD"}
  /\ previousRates["USD"] = T2
  /\ previousRates["EUR"] = T2
  /\ displayedChanges =
       [c \in {"USD", "GBP"} |->
          IF c = "USD" THEN [num |-> 20000, den |-> 10800] ELSE Stable]

\* C18: a run of the interval callback either finds AppState.isOnline true
\* and no sync active and starts a sync, or changes nothing at all: no
\* variable, no timer and no pending call is left from which a sync could
\* start later.
C18_TickSyncsOrDoesNothing ==
  [][\A t \in intervalTimers :
       Tick(t) =>
         \/ /\ isOnline /\ ~isFetching
            /\ started' = started + 1
            /\ isFetching'
            /\ lastCall' = "Started"
         \/ UNCHANGED vars]_vars

\* C18 witness: the interval timer is live after a sync that went through,
\* the page is offline and idle: every tick is skipped here.
C18_Witness ==
  /\ autoRefreshInterval # 0
  /\ autoRefreshInterval \in intervalTimers
  /\ ~isOnline /\ ~isFetching
  /\ outcome = "Success"
  /\ started = 1

\* C19: no interval timer exists when the page has loaded; the timer set and
\* the handle change only in a step that ends a successful sync while no
\* timer exists (so a running scheduler is never started again, whatever
\* started the sync), and a successful sync that ends while no timer exists
\* installs one.
C19_StartedOnceAtFirstSuccess ==
  /\ (autoRefreshInterval = 0 /\ intervalTimers = {})
  /\ [][(intervalTimers' # intervalTimers \/ autoRefreshInterval' # autoRefreshInterval) =>
          /\ autoRefreshInterval = 0 /\ intervalTimers = {}
          /\ \E i \in 1..MaxOps : Completes(i) /\ outcome' = "Success"]_vars
  /\ [][\A i \in 1..MaxOps :
          (Completes(i) /\ outcome' = "Success" /\ autoRefreshInterval = 0) =>
            /\ autoRefreshInterval' # 0
            /\ intervalTimers' = {autoRefreshInterval'}]_vars

\* C19 witness: two syncs have succeeded (the second one's ChangeSet is the
\* diff against the first one's T1) and the timer is the one the first
\* success installed.
C19_Witness ==
  /\ started = 2 /\ fallbackLoads = 0
  /\ outcome = "Success"
  /\ "USD" \in DOMAIN displayedChanges
  /\ displayedChanges["USD"] = [num |-> 20000, den |-> 10800]
  /\ autoRefreshInterval = 1
  /\ intervalTimers = {1}

\* C20: at most one interval timer is live in every reachable state, and it
\* is the one AppState.autoRefreshInterval names; a step that replaces the
\* handle of a live timer leaves the old timer cancelled and the new one the
\* only timer.
C20_AtMostOneIntervalTimer ==
  /\ [](/\ Cardinality(intervalTimers) <= 1
        /\ autoRefreshInterval # 0 => intervalTimers = {autoRefreshInterval}
        /\ autoRefreshInterval = 0 => intervalTimers = {})
  /\ [][(autoRefreshInterval # 0 /\ autoRefreshInterval' # autoRefreshInterval) =>
          /\ autoRefreshInterval \notin intervalTimers'
          /\ intervalTimers' = {autoRefreshInterval'}]_vars

\* C20 witness: startAutoRefresh ran while timer 1 was live, during a sync:
\* timer 2 is the only timer.
C20_Witness ==
  /\ autoRefreshInterval = 2
  /\ intervalTimers = {2}
  /\ isFetching

\* C21: a tick that finds AppState.isOnline true and no sync active starts a
\* sync for the base that is current at the tick; and while a timer is live,
\* a state that is online and idle is followed by a further sync (or by the
\* page going offline), for as many syncs as the bound leaves room.
C21_TicksRefresh ==
  /\ [][\A t \in intervalTimers :
          (Tick(t) /\ isOnline /\ ~isFetching) =>
            /\ isFetching'
            /\ \E i \in DOMAIN sessions' \ DOMAIN sessions :
                  /\ sessions'[i].baseCurrency = currentBaseCurrency
                  /\ sessions'[i].pc = "fetch"]_vars
  /\ (intervalTimers # {} /\ isOnline /\ ~isFetching /\ started + fallbackLoads < MaxOps)
       ~> (isFetching \/ ~isOnline \/ started + fallbackLoads >= MaxOps)

\* C21 witness: the timer is live, the base is USD, and a third sync, for
\* USD, is under way.
C21_Witness ==
  /\ intervalTimers # {}
  /\ currentBaseCurrency = "USD"
  /\ started = 3
  /\ isFetching
  /\ \E i \in DOMAIN sessions : sessions[i].baseCurrency = "USD"

\* C22: the online event, when no sync is active, starts a sync for the
\* current base and leaves the interval timer and its handle as they were,
\* whether a timer exists or not; when a sync is active it starts none and
\* leaves the active one and its timeout timer alone; the offline event
\* starts no sync.
C22_OnlineEventSyncsIfIdle ==
  [][/\ (handleOnlineStatus(TRUE) /\ ~isFetching) =>
          /\ isFetching'
          /\ \E i \in DOMAIN sessions' \ DOMAIN sessions :
                /\ sessions'[i].baseCurrency = currentBaseCurrency
                /\ sessions'[i].pc = "fetch"
          /\ UNCHANGED <<autoRefreshInterval, intervalTimers>>
     /\ (handleOnlineStatus(TRUE) /\ isFetching) =>
          UNCHANGED <<sessions, timeoutTimers, started, isFetching,
                      autoRefreshInterval, intervalTimers>>
     /\ handleOnlineStatus(FALSE) =>
          UNCHANGED <<sessions, timeoutTimers, started, isFetching,
                      autoRefreshInterval, intervalTimers>>]_vars

\* C22 witness: the page is back online with the timer live, and a second
\* sync was started and is awaiting its response.
C22_Witness ==
  /\ navigatorOnLine /\ isOnline
  /\ autoRefreshInterval # 0
  /\ intervalTimers = {autoRefreshInterval}
  /\ started = 2
  /\ lastCall = "Started"
  /\ \E i \in DOMAIN sessions : sessions[i].pc = "fetch"

\* C23: the step that ends a sync in failure leaves the interval timer and
\* its handle as they were and the busy flag clear; a live timer is never
\* removed; and a tick that runs when the latest sync has failed starts a
\* sync exactly when AppState.isOnline is true and no sync is active.
C23_FailuresKeepScheduler ==
  /\ [][\A i \in 1..MaxOps :
          (Completes(i) /\ outcome' # "Success") =>
            /\ UNCHANGED <<autoRefreshInterval, intervalTimers>>
            /\ ~isFetching']_vars
  /\ [][intervalTimers # {} => UNCHANGED <<autoRefreshInterval, intervalTimers>>]_vars
  /\ [][\A t \in intervalTimers :
          (Tick(t) /\ outcome \notin {"none", "Success"}) =>
            IF isOnline /\ ~isFetching
            THEN isFetching' /\ started' = started + 1
            ELSE UNCHANGED vars]_vars

\* C23 witness: the first sync installed the timer, the second one failed
\* with an HTTP error status, the timer is still live and a third sync has
\* been started.
C23_Witness ==
  /\ started = 3 /\ fallbackLoads = 0
  /\ outcome = "ApiError"
  /\ autoRefreshInterval = 1
  /\ intervalTimers = {1}
  /\ isFetching

\* C24: a sync whose request fails in the transport (connection refused,
\* DNS failure) or is answered with a status outside 200..299 ends with the
\* API error reported, and an answered request's status is in the report.
C24_NetworkFailureIsApiError ==
  [][\A i \in DOMAIN sessions :
       /\ FetchReject(i) =>
            errorVisible' /\ errorMessage'.text = "Service unavailable"
       /\ \A status \in Statuses \ (200..299) :
            FetchResolve(i, status) =>
              /\ errorVisible'
              /\ errorMessage' = [text |-> "Service unavailable", status |-> status]]_vars

\* C24 as the code has it: a status outside 200..299 ends the sync with the
\* API error and that status reported; a request that fails in the transport
\* ends it with the offline message when AppState.isOnline is false and with
\* the generic message otherwise, and no status.
C24_StatusIsApiErrorTransportIsNot ==
  [][\A i \in DOMAIN sessions :
       /\ FetchReject(i) =>
            /\ errorVisible'
            /\ errorMessage' =
                 [text |-> IF isOnline THEN "An unexpected error occurred"
                           ELSE "No internet connection",
                  status |-> 0]
       /\ \A status \in Statuses \ (200..299) :
            FetchResolve(i, status) =>
              /\ errorVisible'
              /\ outcome' = "ApiError"
              /\ errorMessage' = [text |-> "Service unavailable", status |-> status]]_vars

\* C24 witness: a sync was answered 404 and the error panel reports it.
C24_Witness ==
  /\ outcome = "ApiError"
  /\ errorVisible
  /\ errorMessage = [text |-> "Service unavailable", status |-> 404]
  /\ ~isFetching

\* C25: the step that ends a sync in failure leaves the error panel visible
\* with a message, and the fallback offer visible exactly when the store has
\* an entry for some base.
C25_ErrorShownFallbackIffSnapshot ==
  [][\A i \in 1..MaxOps :
       (Completes(i) /\ outcome' # "Success") =>
         /\ errorVisible'
         /\ errorMessage'.text # ""
         /\ fallbackVisible' <=> (DOMAIN previousRates' # {})]_vars

\* C25 witness: a sync for USD failed while the store holds a snapshot of
\* EUR only: the error and the fallback offer are both visible.
C25_Witness ==
  /\ fallbackLoads = 0
  /\ currentBaseCurrency = "USD"
  /\ DOMAIN previousRates = {"EUR"}
  /\ outcome = "Transport"
  /\ errorVisible /\ fallbackVisible
  /\ ~isFetching

\* A failed sync with nothing stored: the error is visible, the offer is not.
C25_NoSnapshotNoOffer ==
  /\ previousRates = EmptyObj
  /\ outcome = "Timeout"
  /\ errorVisible /\ ~fallbackVisible

\* The entry of the API cache for url, as a response; Undefined when the
\* cache does not exist or has no entry for url.
ApiEntry(url) ==
  IF API_CACHE_NAME \in DOMAIN cacheEntries /\ url \in DOMAIN cacheEntries[API_CACHE_NAME]
  THEN [kind |-> "cached", from |-> API_CACHE_NAME, at |-> cacheEntries[API_CACHE_NAME][url]]
  ELSE Undefined

\* C26: when the live request of an API fetch event has failed, the response
\* given to the page is the entry the API cache holds for that URL, never an
\* entry of the static cache, and the failure when the API cache has none.
C26_FallbackFromApiPartition ==
  [][\A e \in DOMAIN fetchEvents :
       ApiFallbackMatch(e) =>
         fetchEvents'[e].response =
           IF ApiEntry(fetchEvents[e].url).kind = "cached"
           THEN ApiEntry(fetchEvents[e].url)
           ELSE NetworkError]_vars

\* C27: when the live request of an API fetch event succeeds, the page gets
\* that live response and a put of its clone is started; the put stores the
\* clone in the API cache under the request's URL, in place of any entry the
\* URL had, and changes no other entry and no other cache; and every put
\* started is made.
C27_LiveResponseReturnedAndStored ==
  /\ [][\A e \in DOMAIN fetchEvents :
          (NetworkResolve(e) /\ IsApiRequest(fetchEvents[e].url)) =>
            /\ fetchEvents'[e].response = Live(e)
            /\ [url |-> fetchEvents[e].url, at |-> e + 1] \in pendingPuts'
            /\ UNCHANGED <<cacheNames, cacheEntries>>]_vars
  /\ [][\A p \in pendingPuts :
          CachePut(p) =>
            /\ API_CACHE_NAME \in DOMAIN cacheEntries'
            /\ DOMAIN cacheEntries'[API_CACHE_NAME] =
                 {p.url} \cup
                   (IF API_CACHE_NAME \in DOMAIN cacheEntries
                    THEN DOMAIN cacheEntries[API_CACHE_NAME] ELSE {})
            /\ cacheEntries'[API_CACHE_NAME][p.url] = p.at
            /\ \A u \in DOMAIN cacheEntries'[API_CACHE_NAME] \ {p.url} :
                  cacheEntries'[API_CACHE_NAME][u] = cacheEntries[API_CACHE_NAME][u]
            /\ \A n \in DOMAIN cacheEntries \ {API_CACHE_NAME} :
                  n \in DOMAIN cacheEntries' /\ cacheEntries'[n] = cacheEntries[n]]_vars
  /\ (pendingPuts # {}) ~> (pendingPuts = {})

\* C27 witness: the API cache came with an entry for the EUR URL from before
\* the install; the first fetch event got the live response, and its clone
\* has replaced that entry, the static cache's entry being the install's.
C27_Witness ==
  /\ cacheNames = <<API_CACHE_NAME, CACHE_NAME>>
  /\ DOMAIN cacheEntries[API_CACHE_NAME] = {ApiEUR}
  /\ cacheEntries[API_CACHE_NAME][ApiEUR] = 2
  /\ cacheEntries[CACHE_NAME][ApiEUR] = 1
  /\ 1 \in DOMAIN fetchEvents
  /\ fetchEvents[1].response = Live(1)
  /\ pendingPuts = {}

\* C28: a fetch event of the static branch whose request has a cache entry
\* when caches.match resolves is answered with that entry, and no live
\* request is made for it, then or later.
C28_CachedStaticNoNetwork ==
  /\ [][\A e \in DOMAIN fetchEvents :
          (StaticMatch(e) /\ MatchAll(fetchEvents[e].url).kind = "cached") =>
            /\ fetchEvents'[e].response = MatchAll(fetchEvents[e].url)
            /\ fetchEvents'[e].pc = "done"
            /\ fetchEvents'[e].liveRequests = 0]_vars
  /\ [](\A e \in DOMAIN fetchEvents :
          (~IsApiRequest(fetchEvents[e].url) /\ fetchEvents[e].response.kind = "cached") =>
            fetchEvents[e].liveRequests = 0)
  /\ [][\A e \in DOMAIN fetchEvents :
          fetchEvents[e].pc = "done" => fetchEvents'[e] = fetchEvents[e]]_vars

\* C28 witness: the page asked for /index.html and got the entry the install
\* stored, with no live request.
C28_Witness ==
  /\ 1 \in DOMAIN fetchEvents
  /\ fetchEvents[1].url = "/index.html"
  /\ fetchEvents[1].pc = "done"
  /\ fetchEvents[1].response = [kind |-> "cached", from |-> CACHE_NAME, at |-> 1]
  /\ fetchEvents[1].liveRequests = 0

\* C29: once the install has stored its assets, no URL has an entry in both
\* the static cache and the API cache, and the static cache has no entry for
\* a URL of the API.
C29_PartitionsDisjoint ==
  (swState \in {"activating", "deleting", "activated"}) =>
    /\ \A u \in DOMAIN cacheEntries[CACHE_NAME] : ~IsApiRequest(u)
    /\ API_CACHE_NAME \in DOMAIN cacheEntries =>
         DOMAIN cacheEntries[CACHE_NAME] \cap DOMAIN cacheEntries[API_CACHE_NAME] = {}

\* C30: the activation deletes every cache other than the static cache and
\* the API cache, changes neither of these two, and no fetch event is handled
\* before it is complete.
C30_ActivationCollectsStaleCaches ==
  /\ [](swState = "activated" =>
          /\ toDelete = {}
          /\ \A k \in 1..Len(cacheNames) : cacheNames[k] \in {CACHE_NAME, API_CACHE_NAME}
          /\ DOMAIN cacheEntries \subseteq {CACHE_NAME, API_CACHE_NAME})
  /\ [][(swState = "activating" \/ swState = "deleting") =>
          \A n \in {CACHE_NAME, API_CACHE_NAME} \cap DOMAIN cacheEntries :
             n \in DOMAIN cacheEntries' /\ cacheEntries'[n] = cacheEntries[n]]_vars
  /\ [](DOMAIN fetchEvents # {} => swState = "activated")

\* C30 witness: the worker found a cache of an earlier version and an API
\* cache; it is activated, the earlier cache is gone, the API cache has the
\* entry it had, and the first fetch event has been dispatched.
C30_Witness ==
  /\ swState = "activated"
  /\ cacheNames = <<API_CACHE_NAME, CACHE_NAME>>
  /\ cacheEntries[API_CACHE_NAME] = [u \in {ApiEUR} |-> 0]
  /\ DOMAIN fetchEvents = {1}
  /\ fetchEvents[1].response = Pending

\* C31: AppState.isOnline changes only in a step that handles an online or
\* offline event of the host, and then to navigator.onLine; so it is never
\* true while navigator.onLine is false.
C31_OnlineFlagFollowsHost ==
  /\ [][isOnline' # isOnline =>
          (navigatorOnLine' # navigatorOnLine /\ isOnline' = navigatorOnLine')]_vars
  /\ [](isOnline => navigatorOnLine)

\* C32: the timeout timer of a sync is created by the start of that sync and
\* by nothing else, and is gone once it has fired, so that
\* controller.abort() runs at most once for a sync; a sync ends as timed out
\* only in the step in which its own timer fires, and that step leaves the
\* flag, the indicator and the form as a successful completion leaves them.
C32_AbortOnceByOwnTimer ==
  /\ [][\A i \in 1..MaxOps :
          (i \notin timeoutTimers /\ i \in timeoutTimers') =>
             (started = i - 1 /\ started' = i /\ i \in DOMAIN sessions')]_vars
  /\ [][\A i \in 1..MaxOps : TimeoutFire(i) => i \notin timeoutTimers']_vars
  /\ [][\A i \in 1..MaxOps :
          (Completes(i) /\ outcome' = "Timeout") =>
             /\ i \in timeoutTimers /\ i \notin timeoutTimers'
             /\ timeoutTimers' = timeoutTimers \ {i}
             /\ ~isFetching' /\ ~loadingVisible' /\ ~formDisabled'
             /\ DOMAIN sessions' = {}]_vars
  /\ [][\A i \in 1..MaxOps :
          (Completes(i) /\ outcome' = "Success") =>
             (~isFetching' /\ ~loadingVisible' /\ ~formDisabled' /\ DOMAIN sessions' = {})]_vars

\* C32 witness: the second sync was aborted by its timer while its request
\* was pending, the first having succeeded; the page is idle.
C32_Witness ==
  /\ outcome = "Timeout"
  /\ started = 2
  /\ lastSuccessfulUpdate # 0
  /\ timeoutTimers = {}
  /\ DOMAIN sessions = {}
  /\ ~isFetching /\ ~loadingVisible /\ ~formDisabled

\* C34: a sync is started for AppState.currentBaseCurrency as its call reads
\* it and keeps that base; when it succeeds, the table it got is stored under
\* that base and shown for that base, whatever currentBaseCurrency is by
\* then, and every other entry of the store is as it was.
C34_SuccessUsesCapturedBase ==
  /\ [][\A i \in 1..MaxOps :
          /\ (i \notin DOMAIN sessions /\ i \in DOMAIN sessions') =>
                sessions'[i].baseCurrency = currentBaseCurrency'
          /\ (i \in DOMAIN sessions /\ i \in DOMAIN sessions') =>
                sessions'[i].baseCurrency = sessions[i].baseCurrency]_vars
  /\ [][\A i \in 1..MaxOps :
          (Completes(i) /\ outcome' = "Success") =>
             LET b == sessions[i].baseCurrency
             IN /\ DOMAIN previousRates' = DOMAIN previousRates \cup {b}
                /\ previousRates'[b] = currentRates'
                /\ resultsTitle' = b
                /\ \A c \in DOMAIN previousRates \ {b} :
                      previousRates'[c] = previousRates[c]]_vars

\* C34 witness: the first sync, for EUR, has succeeded after the base was
\* changed to USD while it was in flight: EUR is stored and shown, USD has no
\* entry.
C34_Witness ==
  /\ outcome = "Success"
  /\ started = 1 /\ fallbackLoads = 0
  /\ lastCall = "Busy"
  /\ currentBaseCurrency = "USD"
  /\ resultsTitle = "EUR"
  /\ DOMAIN previousRates = {"EUR"}
  /\ previousRates["EUR"] = currentRates

\* C35: when the base currency has been changed to b while a sync for
\* another base is active, a sync for b is eventually started, unless the
\* base is changed again, the client goes offline, or the bound on
\* operations is reached.
C35_ChangeLeadsToSync ==
  \A b \in Bases :
    (/\ currentBaseCurrency = b
     /\ \E i \in DOMAIN sessions : sessions[i].baseCurrency # b)
    ~> (\/ \E i \in DOMAIN sessions : sessions[i].baseCurrency = b
        \/ currentBaseCurrency # b
        \/ ~isOnline
        \/ started + fallbackLoads >= MaxOps)

\* C36: when the timeout timer of a sync that has already completed fires,
\* nothing but the timer changes: no later sync is aborted or failed, and
\* neither AppState nor the page changes.
C36_StaleTimerAffectsNothing ==
  [][\A i \in 1..MaxOps :
       (i \in timeoutTimers /\ i \notin DOMAIN sessions /\ i \notin timeoutTimers') =>
          /\ timeoutTimers' = timeoutTimers \ {i}
          /\ UNCHANGED <<appVars, sessions, intervalTimers, domVars, outcome, lastCall>>]_vars

\* C36 witness: the fetch of the first sync was rejected, which left its
\* timer pending; the timer has fired, and the second sync is in flight with
\* its own timer pending.
C36_Witness ==
  /\ outcome = "Transport"
  /\ started = 2
  /\ 2 \in DOMAIN sessions
  /\ sessions[2].pc = "fetch"
  /\ timeoutTimers = {2}
  /\ isFetching

\* C37: no timeout timer of a completed sync is pending, so that there are
\* never more pending timeout timers than active syncs.
C37_NoTimerOfCompletedSync ==
  /\ timeoutTimers \subseteq DOMAIN sessions
  /\ Cardinality(timeoutTimers) <= Cardinality(DOMAIN sessions)

\* C38: the form is disabled exactly when a sync is active, and the loading
\* indicator is visible exactly when a sync is active.
C38_BusyShownIffFetching ==
  /\ formDisabled <=> isFetching
  /\ loadingVisible <=> isFetching

\* C38 witness: a sync is active, started after the host went online;
\* loadFallbackData ran during it (the sync had hidden the fallback notice)
\* and the host has since gone offline.
C38_Witness ==
  /\ isFetching /\ formDisabled /\ loadingVisible
  /\ fallbackLoads >= 1
  /\ fallbackVisible
  /\ ~navigatorOnLine
  /\ DOMAIN sessions # {}

\* C33: a fetch event of the static branch whose request has no cache entry
\* makes one live request and is answered with its outcome, the response or
\* the failure, and no cache changes; once the worker is activated, no step
\* changes the static cache.
C33_StaticMissGoesLiveCacheKept ==
  /\ [][\A e \in DOMAIN fetchEvents :
          (StaticMatch(e) /\ MatchAll(fetchEvents[e].url).kind = "undefined") =>
             /\ fetchEvents'[e].pc = "fetch"
             /\ fetchEvents'[e].liveRequests = 1
             /\ UNCHANGED <<cacheNames, cacheEntries>>]_vars
  /\ [][\A e \in DOMAIN fetchEvents :
          (/\ ~IsApiRequest(fetchEvents[e].url)
           /\ fetchEvents[e].pc = "fetch"
           /\ fetchEvents'[e].pc # "fetch") =>
             /\ fetchEvents'[e].pc = "done"
             /\ fetchEvents'[e].response \in {Live(e), NetworkError}
             /\ fetchEvents'[e].liveRequests = 1
             /\ UNCHANGED <<cacheNames, cacheEntries>>]_vars
  /\ [][(swState = "activated") =>
          /\ CACHE_NAME \in DOMAIN cacheEntries'
          /\ cacheEntries'[CACHE_NAME] = cacheEntries[CACHE_NAME]]_vars

\* C33 witness: the page asked for /favicon.ico, which the install does not
\* store, and got the live response; the static cache has the install's
\* entries and no other.
C33_Witness ==
  /\ 1 \in DOMAIN fetchEvents
  /\ fetchEvents[1].url = "/favicon.ico"
  /\ fetchEvents[1].pc = "done"
  /\ fetchEvents[1].response = Live(1)
  /\ fetchEvents[1].liveRequests = 1
  /\ cacheEntries[CACHE_NAME] = [u \in STATIC_ASSETS |-> 1]

\* C39: every entry of the API cache is a response with a 2xx status.
C39_ApiCacheHoldsOnlyOk ==
  API_CACHE_NAME \in DOMAIN cacheEntries =>
    \A u \in DOMAIN cacheEntries[API_CACHE_NAME] :
       StatusOf(cacheEntries[API_CACHE_NAME][u]) \in 200..299

\* The latest of the fetch events before e, for the same URL, that have been
\* answered with their live response; 0 if there is none.
LatestLiveBefore(e) ==
  LET earlier == {d \in 1..(e - 1) :
                    /\ fetchEvents[d].url = fetchEvents[e].url
                    /\ fetchEvents[d].response.kind = "live"}
  IN IF earlier = {} THEN 0
     ELSE CHOOSE d \in earlier : \A c \in earlier : c <= d

\* C40: when a fetch event for an API URL is dispatched after an earlier one
\* for that URL was answered live, the API cache already has the clone of the
\* latest such response; and an API fetch event whose live request failed,
\* coming after one answered live, is answered with that latest response.
C40_StoresOrderedWithResponses ==
  /\ [][\A e \in 1..MaxRequests :
          (/\ e \notin DOMAIN fetchEvents
           /\ e \in DOMAIN fetchEvents'
           /\ IsApiRequest(fetchEvents'[e].url)
           /\ LatestLiveBefore(e)' # 0) =>
             /\ ApiEntry(fetchEvents'[e].url).kind = "cached"
             /\ ApiEntry(fetchEvents'[e].url).at = LatestLiveBefore(e)' + 1]_vars
  /\ [][\A e \in DOMAIN fetchEvents :
          (/\ fetchEvents[e].pc = "fallback"
           /\ fetchEvents'[e].pc = "done"
           /\ LatestLiveBefore(e) # 0) =>
             /\ fetchEvents'[e].response.kind = "cached"
             /\ fetchEvents'[e].response.at = LatestLiveBefore(e) + 1]_vars

====
